---- MODULE Spec2Model ----
(***************************************************************************)
(* Routing and allocation engine of spring-challenge-2023 (src/src/lib.rs):*)
(* Game::path, Game::distance, Game::beacons_of_line, Game::assign_moves   *)
(* and Game::step, with Game::read_update supplying the unit counts of     *)
(* each turn.  Cell indices, source indices and sink indices are 0-based   *)
(* as in the source; a Vec is a sequence, so element i of a Vec v is       *)
(* v[i + 1].                                                               *)
(***************************************************************************)
EXTENDS Integers, Sequences, FiniteSets, TLC

VARIABLES
    cells,        \* Game.cells: cell index -> [neighbors, allied_ants, ennemy_ants]
    op,           \* the public operation in progress or last finished
    pc,           \* position inside that operation
    panic,        \* message of the panic that ended the process ("" while it lives)
    source,       \* path(): argument `source`
    destination,  \* path(): argument `destination`
    previous,     \* path(): HashMap `previous`
    q,            \* path(): VecDeque `q` of (distance, state)
    current,      \* path(): `current` of the predecessor walk
    path,         \* path(): Vec `path`
    strength,     \* beacons_of_line(): the line's strength
    beacons,      \* step()/assign_moves(): argument `beacons`
    sources,      \* assign_moves(): Vec<Source>
    sinks,        \* assign_moves(): Vec<Sink>
    pairs,        \* assign_moves(): Vec of (distance, source_index, sink_index)
    assignments,  \* assign_moves(): Vec<MoveAssignment> accumulated so far
    stragglers,   \* assign_moves(): flag `stragglers`
    drawn,        \* history: source.ants read when assignments[i] was recorded
    origin,       \* history: the source's and the sink's cell of assignments[i]
    todo,         \* step(): assignments the for loop has not reached yet
    move,         \* step(): the assignment being applied (<<>> when none)
    before,       \* history: cells when step() was called
    ret           \* value returned by the last finished operation

vars == << cells, op, pc, panic, source, destination, previous, q, current, path,
           strength, beacons, sources, sinks, pairs, assignments, stragglers,
           drawn, origin, todo, move, before, ret >>

pathVars == << source, destination, previous, q, current, path >>
assignVars == << beacons, sources, sinks, pairs, assignments, stragglers, drawn,
                origin >>
stepVars == << todo, move, before >>

----------------------------------------------------------------------------
(* Bounds of the model *)

\* longest Vec `path` the process can hold before its allocation fails
MaxWalk == 6
\* most beacons handed to one step() call
MaxBeacons == 2

\* unit counts read_update may report for one cell
AntCounts == {0, 4, 5}
\* enemy unit counts read_update may report for one cell
EnnemyCounts == {0, 1}
\* beacon and line strengths the caller may choose
Strengths == {1, 3, 10}

\* neighbor lists of the graphs Game::parse may have read
Chain3 == [i \in 0..2 |-> IF i = 0 THEN <<1>> ELSE IF i = 1 THEN <<0, 2>> ELSE <<1>>]
Triangle == [i \in 0..2 |-> IF i = 0 THEN <<1, 2>> ELSE IF i = 1 THEN <<0, 2>> ELSE <<0, 1>>]
Star3 == [i \in 0..2 |-> IF i = 0 THEN <<2, 1>> ELSE <<0>>]
Cycle3 == [i \in 0..2 |-> IF i = 0 THEN <<1>> ELSE IF i = 1 THEN <<2>> ELSE <<0>>]
OneWay3 == [i \in 0..2 |-> IF i = 0 THEN <<1>> ELSE IF i = 1 THEN <<2>> ELSE <<>>]
Pair2 == [i \in 0..1 |-> IF i = 0 THEN <<1>> ELSE <<0>>]
Single1 == [i \in 0..0 |-> <<>>]
Graphs == {Chain3, Triangle, Star3, Cycle3, OneWay3, Pair2, Single1}

----------------------------------------------------------------------------
(* Helpers over Vecs *)

Reverse(s) == [i \in 1..Len(s) |-> s[Len(s) + 1 - i]]

RECURSIVE SumSeq(_)
SumSeq(s) == IF s = <<>> THEN 0 ELSE Head(s) + SumSeq(Tail(s))

Max(a, b) == IF a >= b THEN a ELSE b

NumCells(c) == Cardinality(DOMAIN c)

\* the cells in index order, as self.cells.iter() yields them
CellOrder(c) == [i \in 1..NumCells(c) |-> i - 1]

----------------------------------------------------------------------------
(* Game::distance, lib.rs 241-261 *)

\* for &neighbor in &cell.neighbors { q.push_back((distance + 1, neighbor)) }
PushNeighbors(queue, distance, nbrs) ==
    queue \o [i \in 1..Len(nbrs) |-> << distance + 1, nbrs[i] >>]

RECURSIVE DistanceLoop(_, _, _, _)
DistanceLoop(c, dest, visited, queue) ==
    IF queue = <<>>
    THEN [panic |-> TRUE, value |-> 0]           \* unreachable!()
    ELSE LET distance == Head(queue)[1]
             state == Head(queue)[2]
         IN  IF state \in visited
             THEN DistanceLoop(c, dest, visited, Tail(queue))
             ELSE IF state = dest
                  THEN [panic |-> FALSE, value |-> distance]
                  ELSE DistanceLoop(c, dest, visited \cup {state},
                           PushNeighbors(Tail(queue), distance, c[state].neighbors))

\* distance as it would be if an exhausted queue yielded the loop's default
\* instead of the panic
DistanceLax(c, src, dest) ==
    [panic |-> FALSE, value |-> DistanceLoop(c, dest, {}, << <<0, src>> >>).value]

Distance(c, src, dest) == DistanceLoop(c, dest, {}, << <<0, src>> >>)

----------------------------------------------------------------------------
(* Game::path, lib.rs 211-239: the BFS loop's body for one popped state *)

\* lines 229-236: the for loop over cell.neighbors; acc = [previous, q]
RECURSIVE PathExpand(_, _, _, _)
PathExpand(acc, nbrs, distance, state) ==
    IF nbrs = <<>>
    THEN acc
    ELSE LET neighbor == Head(nbrs)
         IN  IF neighbor \in DOMAIN acc.previous
             THEN PathExpand(acc, Tail(nbrs), distance, state)
             ELSE PathExpand([previous |-> (neighbor :> state) @@ acc.previous,
                              q |-> Append(acc.q, << distance + 1, neighbor >>)],
                             Tail(nbrs), distance, state)

\* the while-let condition of the predecessor walk, line 220
WalkContinues(prev, cur) == cur \in DOMAIN prev

----------------------------------------------------------------------------
(* Initial state: Game::parse has built the cells; no unit is on the map *)

Init ==
    /\ \E g \in Graphs :
          cells = [i \in DOMAIN g |-> [neighbors |-> g[i], allied_ants |-> 0,
                                       ennemy_ants |-> 0]]
    /\ op = "none"
    /\ pc = "idle"
    /\ panic = ""
    /\ source = 0
    /\ destination = 0
    /\ previous = << >>
    /\ q = << >>
    /\ current = 0
    /\ path = << >>
    /\ strength = 0
    /\ beacons = << >>
    /\ sources = << >>
    /\ sinks = << >>
    /\ pairs = << >>
    /\ assignments = << >>
    /\ stragglers = FALSE
    /\ drawn = << >>
    /\ origin = << >>
    /\ todo = << >>
    /\ move = << >>
    /\ before = << >>
    /\ ret = << >>

\* locals of a finished call are dropped when the next operation starts
ResetPath(src, dest) ==
    /\ source' = src
    /\ destination' = dest
    /\ previous' = << >>
    /\ q' = << <<0, src>> >>
    /\ current' = 0
    /\ path' = << >>

ClearPath ==
    /\ source' = 0
    /\ destination' = 0
    /\ previous' = << >>
    /\ q' = << >>
    /\ current' = 0
    /\ path' = << >>

ClearAssign ==
    /\ beacons' = << >>
    /\ sources' = << >>
    /\ sinks' = << >>
    /\ pairs' = << >>
    /\ assignments' = << >>
    /\ stragglers' = FALSE
    /\ drawn' = << >>
    /\ origin' = << >>

ClearStep ==
    /\ todo' = << >>
    /\ move' = << >>
    /\ before' = << >>

----------------------------------------------------------------------------
(* Game::read_update, lib.rs 189-198 *)

ReadUpdate ==
    /\ pc = "idle"
    /\ \E allied \in [DOMAIN cells -> AntCounts] :
       \E ennemy \in [DOMAIN cells -> EnnemyCounts] :
          /\ \A i \in DOMAIN cells : ennemy[i] = 1 => i = 0
          /\ cells' = [i \in DOMAIN cells |->
                         [cells[i] EXCEPT !.allied_ants = allied[i],
                                          !.ennemy_ants = ennemy[i]]]
    /\ op' = "none"
    /\ strength' = 0
    /\ ret' = << >>
    /\ ClearPath /\ ClearAssign /\ ClearStep
    /\ UNCHANGED << pc, panic >>

----------------------------------------------------------------------------
(* Game::path as called directly, lib.rs 211-239 *)

CallPath ==
    /\ pc = "idle"
    /\ \E s \in DOMAIN cells, d \in DOMAIN cells : ResetPath(s, d)
    /\ op' = "path"
    /\ pc' = "path_bfs"
    /\ strength' = 0
    /\ ret' = << >>
    /\ ClearAssign /\ ClearStep
    /\ UNCHANGED << cells, panic >>

\* one iteration of `while let Some((distance, state)) = q.pop_front()`
PathPop ==
    /\ pc = "path_bfs"
    /\ q # << >>
    /\ LET distance == Head(q)[1]
           state == Head(q)[2]
       IN  IF state = destination
           THEN /\ current' = state
                /\ path' = << state >>
                /\ pc' = "path_walk"
                /\ q' = Tail(q)
                /\ UNCHANGED previous
           ELSE LET acc == PathExpand([previous |-> previous, q |-> Tail(q)],
                                      cells[state].neighbors, distance, state)
                IN  /\ previous' = acc.previous
                    /\ q' = acc.q
                    /\ UNCHANGED << current, path, pc >>
    /\ UNCHANGED << cells, op, panic, source, destination, strength, ret >>
    /\ UNCHANGED assignVars
    /\ UNCHANGED stepVars

\* the queue ran empty: unreachable!() at line 238
PathUnreachable ==
    /\ pc = "path_bfs"
    /\ q = << >>
    /\ pc' = "panic"
    /\ panic' = "unreachable"
    /\ UNCHANGED << cells, op, strength, ret >>
    /\ UNCHANGED pathVars
    /\ UNCHANGED assignVars
    /\ UNCHANGED stepVars

\* one iteration of `while let Some(&previous) = previous.get(&current)`
PathWalk ==
    /\ pc = "path_walk"
    /\ WalkContinues(previous, current)
    /\ Len(path) < MaxWalk
    /\ current' = previous[current]
    /\ path' = Append(path, previous[current])
    /\ UNCHANGED << cells, op, pc, panic, source, destination, previous, q,
                    strength, ret >>
    /\ UNCHANGED assignVars
    /\ UNCHANGED stepVars

\* the walk goes on but `path` cannot grow any more: the allocation fails
PathOutOfMemory ==
    /\ pc = "path_walk"
    /\ WalkContinues(previous, current)
    /\ Len(path) >= MaxWalk
    /\ pc' = "panic"
    /\ panic' = "memory allocation failed"
    /\ UNCHANGED << cells, op, strength, ret >>
    /\ UNCHANGED pathVars
    /\ UNCHANGED assignVars
    /\ UNCHANGED stepVars

\* the walk is over: path.reverse(); return path, to the direct caller
PathReturn ==
    /\ pc = "path_walk"
    /\ op = "path"
    /\ ~WalkContinues(previous, current)
    /\ path' = Reverse(path)
    /\ ret' = Reverse(path)
    /\ pc' = "returned"
    /\ UNCHANGED << cells, op, panic, source, destination, previous, q, current,
                    strength >>
    /\ UNCHANGED assignVars
    /\ UNCHANGED stepVars

----------------------------------------------------------------------------
(* Game::distance as called directly, lib.rs 241-261 *)

CallDistance ==
    /\ pc = "idle"
    /\ \E s \in DOMAIN cells, d \in DOMAIN cells :
          LET r == Distance(cells, s, d)
          IN  /\ source' = s
              /\ destination' = d
              /\ IF r.panic
                 THEN pc' = "panic" /\ panic' = "unreachable" /\ ret' = << >>
                 ELSE pc' = "returned" /\ panic' = "" /\ ret' = r.value
    /\ op' = "distance"
    /\ previous' = << >>
    /\ q' = << >>
    /\ current' = 0
    /\ path' = << >>
    /\ strength' = 0
    /\ ClearAssign /\ ClearStep
    /\ UNCHANGED cells

----------------------------------------------------------------------------
(* Game::beacons_of_line, lib.rs 285-295 *)

\* .map(|&location| ActionBeacon { location, strength })
BeaconsOf(p, str) == [i \in 1..Len(p) |-> [location |-> p[i], strength |-> str]]

CallBeaconsOfLine ==
    /\ pc = "idle"
    /\ \E s \in DOMAIN cells, d \in DOMAIN cells : ResetPath(s, d)
    /\ \E str \in Strengths : strength' = str
    /\ op' = "beacons_of_line"
    /\ pc' = "path_bfs"
    /\ ret' = << >>
    /\ ClearAssign /\ ClearStep
    /\ UNCHANGED << cells, panic >>

\* self.path(source, destination) has returned: map its cells to beacons
BeaconsOfLineReturn ==
    /\ pc = "path_walk"
    /\ op = "beacons_of_line"
    /\ ~WalkContinues(previous, current)
    /\ path' = Reverse(path)
    /\ ret' = BeaconsOf(Reverse(path), strength)
    /\ pc' = "returned"
    /\ UNCHANGED << cells, op, panic, source, destination, previous, q, current,
                    strength >>
    /\ UNCHANGED assignVars
    /\ UNCHANGED stepVars

----------------------------------------------------------------------------
(* Game::assign_moves, lib.rs 297-380 *)

\* line 305: the test that makes the loop `continue` past a cell
SourceSkipped(allied_ants) == allied_ants # 0

\* lines 303-312
RECURSIVE MakeSources(_, _)
MakeSources(c, order) ==
    IF order = <<>>
    THEN <<>>
    ELSE LET index == Head(order)
         IN  IF SourceSkipped(c[index].allied_ants)
             THEN MakeSources(c, Tail(order))
             ELSE << [location |-> index, ants |-> c[index].allied_ants] >>
                  \o MakeSources(c, Tail(order))

\* line 322
TotalBeacons(bs) == SumSeq([i \in 1..Len(bs) |-> bs[i].strength])
\* line 324
TotalAnts(c) == SumSeq([i \in 1..NumCells(c) |-> c[i - 1].allied_ants])

\* the assertion as it would read if it only rejected a negative total
TotalAntsAssertedLax(total_ants) == total_ants >= 0

\* line 325: assert!(total_ants != 0)
TotalAntsAsserted(total_ants) == total_ants # 0

\* largest i32, the value a cast of +infinity saturates to (`as i32`, line 330)
I32Max == 2147483647

\* floor and ceiling of the quotient n / d for d > 0
FloorDiv(n, d) == n \div d
CeilDiv(n, d) == -((-n) \div d)

\* lines 326-331: (strength * (total_beacons / total_ants)) floored and ceiled
\* to i32.  The f64 quotient and product are rounded, but for every strength of
\* Strengths, every beacon total up to 44 and every unit total up to 24 (the
\* totals of this model stay below both) the rounded product has the floor and
\* the ceiling of the exact quotient strength * total_beacons / total_ants.
\* A zero total (beyond the assertion) divides to +infinity or NaN, which the
\* casts saturate to I32Max and 0.
LowBeaconValue(str, total_beacons, total_ants) ==
    IF total_ants = 0
    THEN IF total_beacons > 0 /\ str > 0 THEN I32Max ELSE 0
    ELSE FloorDiv(str * total_beacons, total_ants)

HighBeaconValue(str, total_beacons, total_ants) ==
    IF total_ants = 0
    THEN IF total_beacons > 0 /\ str > 0 THEN I32Max ELSE 0
    ELSE CeilDiv(str * total_beacons, total_ants)

\* lines 328-338
MakeSinks(bs, total_ants) ==
    [i \in 1..Len(bs) |->
        [location |-> bs[i].location,
         ants |-> Max(LowBeaconValue(bs[i].strength, TotalBeacons(bs), total_ants), 1),
         wiggle_room |-> HighBeaconValue(bs[i].strength, TotalBeacons(bs), total_ants)
                         - bs[i].strength]]

\* lines 342-347: every (d, source_index, sink_index), with d as distance() gives it;
\* panic is TRUE when one of the distance() calls ends in unreachable!()
PairSet(c, srcs, snks) ==
    { << Distance(c, srcs[i].location, snks[j].location).value, i - 1, j - 1 >> :
          i \in 1..Len(srcs), j \in 1..Len(snks) }

PairsPanic(c, srcs, snks) ==
    \E i \in 1..Len(srcs), j \in 1..Len(snks) :
        Distance(c, srcs[i].location, snks[j].location).panic

\* the order of tuples (d, source_index, sink_index) that pairs.sort() uses
PairLess(a, b) ==
    \/ a[1] < b[1]
    \/ a[1] = b[1] /\ a[2] < b[2]
    \/ a[1] = b[1] /\ a[2] = b[2] /\ a[3] < b[3]

\* line 348: pairs.sort()
RECURSIVE SortPairs(_)
SortPairs(set) ==
    IF set = {}
    THEN <<>>
    ELSE LET least == CHOOSE a \in set : \A b \in set \ {a} : PairLess(a, b)
         IN  << least >> \o SortPairs(set \ {least})

\* line 359
AssignmentSize(sink_size, source_ants) == Max(sink_size, source_ants)

\* lines 363-367: the MoveAssignment pushed for a pair
MakeAssignment(source_index, sink_index, assignment_size) ==
    [source |-> source_index, destination |-> sink_index, amount |-> assignment_size]

\* lines 354-370: the body of the for loop, for one pair;
\* st = [sources, sinks, assignments, drawn, origin]
AssignPair(st, pair, strag) ==
    LET source_index == pair[2]
        sink_index == pair[3]
        src == st.sources[source_index + 1]
        snk == st.sinks[sink_index + 1]
        wiggle == IF strag THEN snk.wiggle_room ELSE 0
        sink_size == snk.ants + wiggle
        assignment_size == AssignmentSize(sink_size, src.ants)
    IN  IF assignment_size = 0
        THEN st
        ELSE [sources |-> [st.sources EXCEPT
                              ![source_index + 1].ants = @ - assignment_size],
              sinks |-> [st.sinks EXCEPT
                              ![sink_index + 1].ants = @ - (assignment_size - wiggle),
                              ![sink_index + 1].wiggle_room = @ - wiggle],
              assignments |-> Append(st.assignments,
                                  MakeAssignment(source_index, sink_index,
                                                 assignment_size)),
              drawn |-> Append(st.drawn, src.ants),
              origin |-> Append(st.origin, [source |-> src.location,
                                            sink |-> snk.location])]

\* lines 353-371: the for loop over the pairs
RECURSIVE AssignWalkPairs(_, _, _)
AssignWalkPairs(st, ps, strag) ==
    IF ps = <<>>
    THEN st
    ELSE AssignWalkPairs(AssignPair(st, Head(ps), strag), Tail(ps), strag)

\* line 374: the pairs the filter keeps
PairKept(c, pair) == c[pair[2]].allied_ants > 0

\* lines 372-375
FilterPairs(c, ps) == SelectSeq(ps, LAMBDA pair : PairKept(c, pair))

----------------------------------------------------------------------------
(* Game::step, lib.rs 382-408 *)

Beacons == [location : DOMAIN cells, strength : Strengths]
BeaconLists == UNION { [1..n -> Beacons] : n \in 0..MaxBeacons }

\* step() is called: line 387 enters assign_moves, which runs up to its while loop
CallStep ==
    /\ pc = "idle"
    /\ \E bs \in BeaconLists :
          LET srcs == MakeSources(cells, CellOrder(cells))
              total_ants == TotalAnts(cells)
              snks == MakeSinks(bs, total_ants)
          IN  /\ beacons' = bs
              /\ sources' = srcs
              /\ IF ~TotalAntsAsserted(total_ants)
                 THEN /\ pc' = "panic"
                      /\ panic' = "assertion failed: total_ants != 0"
                      /\ sinks' = << >>
                      /\ pairs' = << >>
                 ELSE IF PairsPanic(cells, srcs, snks)
                 THEN /\ pc' = "panic"
                      /\ panic' = "unreachable"
                      /\ sinks' = snks
                      /\ pairs' = << >>
                 ELSE /\ pc' = "assign_loop"
                      /\ panic' = ""
                      /\ sinks' = snks
                      /\ pairs' = SortPairs(PairSet(cells, srcs, snks))
    /\ op' = "step"
    /\ assignments' = << >>
    /\ stragglers' = FALSE
    /\ drawn' = << >>
    /\ origin' = << >>
    /\ todo' = << >>
    /\ move' = << >>
    /\ before' = cells
    /\ strength' = 0
    /\ ret' = << >>
    /\ ClearPath
    /\ UNCHANGED cells

\* one iteration of `while !pairs.is_empty()`, lines 352-377
AssignWalk ==
    /\ pc = "assign_loop"
    /\ pairs # << >>
    /\ LET st == AssignWalkPairs([sources |-> sources, sinks |-> sinks,
                                  assignments |-> assignments, drawn |-> drawn,
                                  origin |-> origin],
                                 pairs, stragglers)
       IN  /\ sources' = st.sources
           /\ sinks' = st.sinks
           /\ assignments' = st.assignments
           /\ drawn' = st.drawn
           /\ origin' = st.origin
    /\ pairs' = FilterPairs(cells, pairs)
    /\ stragglers' = TRUE
    /\ UNCHANGED << cells, op, pc, panic, strength, beacons, ret >>
    /\ UNCHANGED pathVars
    /\ UNCHANGED stepVars

\* the while loop is over: assign_moves returns `assignments` to step, line 387
AssignReturn ==
    /\ pc = "assign_loop"
    /\ pairs = << >>
    /\ todo' = assignments
    /\ pc' = "step_loop"
    /\ UNCHANGED << cells, op, panic, strength, ret, move, before >>
    /\ UNCHANGED pathVars
    /\ UNCHANGED assignVars

\* lines 388-394: the for loop takes the next assignment and calls path
StepNext ==
    /\ pc = "step_loop"
    /\ todo # << >>
    /\ move' = Head(todo)
    /\ todo' = Tail(todo)
    /\ ResetPath(Head(todo).source, Head(todo).destination)
    /\ pc' = "path_bfs"
    /\ UNCHANGED << cells, op, panic, strength, ret, before >>
    /\ UNCHANGED assignVars

\* the assertion as it would read if it only rejected a negative count
StepAssertedLax(allied_ants, amount) == allied_ants >= 0

\* line 398: assert!(source.allied_ants >= amount)
StepAsserted(allied_ants, amount) == allied_ants >= amount

\* lines 396-404: the counts after `amount` units went from `src` to `next_step`
MoveAnts(c, src, next_step, amount) ==
    LET taken == [c EXCEPT ![src].allied_ants = @ - amount]
    IN  [taken EXCEPT ![next_step].allied_ants = @ + amount]

\* the move as it would be if an overdrawn source were emptied instead of
\* failing the assertion
ApplyMoveClamped(c, src, next_step, amount) ==
    LET taken == [c EXCEPT ![src].allied_ants = Max(@ - amount, 0)]
    IN  [ok |-> TRUE,
         cells |-> [taken EXCEPT ![next_step].allied_ants = @ + amount]]

\* lines 396-404 together: `ok` is the assertion of line 398, `cells` the counts
\* the two updates leave when it holds
ApplyMove(c, src, next_step, amount) ==
    [ok |-> StepAsserted(c[src].allied_ants, amount),
     cells |-> MoveAnts(c, src, next_step, amount)]

\* path has returned to step: lines 395-405
StepApply ==
    /\ pc = "path_walk"
    /\ op = "step"
    /\ ~WalkContinues(previous, current)
    /\ path' = Reverse(path)
    /\ IF Len(path) > 1
       THEN IF ApplyMove(cells, move.source, Reverse(path)[2], move.amount).ok
            THEN /\ cells' = ApplyMove(cells, move.source, Reverse(path)[2],
                                       move.amount).cells
                 /\ pc' = "step_loop"
                 /\ UNCHANGED panic
            ELSE /\ pc' = "panic"
                 /\ panic' = "assertion failed: source.allied_ants >= amount"
                 /\ UNCHANGED cells
       ELSE /\ pc' = "step_loop"
            /\ UNCHANGED << cells, panic >>
    /\ UNCHANGED << op, source, destination, previous, q, current, strength, ret >>
    /\ UNCHANGED assignVars
    /\ UNCHANGED stepVars

\* line 407: the for loop is over, step returns the game
StepReturn ==
    /\ pc = "step_loop"
    /\ todo = << >>
    /\ pc' = "returned"
    /\ ret' = cells
    /\ UNCHANGED << cells, op, panic, strength >>
    /\ UNCHANGED pathVars
    /\ UNCHANGED assignVars
    /\ UNCHANGED stepVars

----------------------------------------------------------------------------
(* The caller has used the returned value and drops it; the game lives on *)

DropResult ==
    /\ pc = "returned"
    /\ pc' = "idle"
    /\ op' = "none"
    /\ strength' = 0
    /\ ret' = << >>
    /\ ClearPath /\ ClearAssign /\ ClearStep
    /\ UNCHANGED << cells, panic >>

----------------------------------------------------------------------------

Next ==
    \/ ReadUpdate
    \/ CallPath
    \/ PathPop
    \/ PathUnreachable
    \/ PathWalk
    \/ PathOutOfMemory
    \/ PathReturn
    \/ CallDistance
    \/ CallBeaconsOfLine
    \/ BeaconsOfLineReturn
    \/ CallStep
    \/ AssignWalk
    \/ AssignReturn
    \/ StepNext
    \/ StepApply
    \/ StepReturn
    \/ DropResult

Spec == Init /\ [][Next]_vars

----------------------------------------------------------------------------
(* Vocabulary of the properties *)

Neighbors(c, i) == { c[i].neighbors[k] : k \in 1..Len(c[i].neighbors) }

\* the cells some chain of edges leads to from the cells of `set`
RECURSIVE ReachSet(_, _)
ReachSet(c, set) ==
    LET more == set \cup UNION { Neighbors(c, i) : i \in set }
    IN  IF more = set THEN set ELSE ReachSet(c, more)

Reachable(c, s, d) == d \in ReachSet(c, {s})

NumEdges(c) == SumSeq([i \in 1..NumCells(c) |-> Len(c[i - 1].neighbors)])

\* every cell can be reached from every cell
Connected(c) == \A s \in DOMAIN c, d \in DOMAIN c : Reachable(c, s, d)

Allied(c) == [i \in DOMAIN c |-> c[i].allied_ants]

NeighborLists(c) == [i \in DOMAIN c |-> c[i].neighbors]

\* the path call in progress, of whichever caller, is about to end
PathEnds == pc = "path_walk" /\ ~WalkContinues(previous, current)

----------------------------------------------------------------------------
(* C1 *)

\* C1: for every pair (s, d) with d reachable from s, path(s, d) returns a
\* sequence whose length minus one is distance(s, d): the call does not end in
\* a panic, the sequence it collects never outgrows distance(s, d) + 1 cells,
\* and the sequence it returns has exactly that many.
C1_PathLengthIsDistance ==
    (op = "path" /\ Reachable(cells, source, destination)) =>
        /\ pc # "panic"
        /\ pc = "path_walk" =>
              Len(path) - 1 <= Distance(cells, source, destination).value
        /\ pc = "returned" =>
              Len(ret) - 1 = Distance(cells, source, destination).value

----------------------------------------------------------------------------
(* C2 *)

\* C2: path(s, d) with d reachable from s terminates within a number of steps
\* bounded by the cells and edges: the queue never holds more entries than
\* there are cells and edges, the walk collects no more cells than the graph
\* has, and a walk that has reached s stops there.
C2_PathTerminates ==
    [][ (op = "path" /\ Reachable(cells, source, destination)) =>
           /\ Len(q') <= NumCells(cells) + NumEdges(cells)
           /\ Len(path') <= NumCells(cells)
           /\ (pc = "path_walk" /\ current = source) => pc' = "returned" ]_vars

----------------------------------------------------------------------------
(* C3 *)

\* scenario A: chain 0-1-2, 5 allied units at cell 0, one beacon of strength 10
\* at cell 2, handed to step
ScenarioA ==
    /\ op = "step"
    /\ NeighborLists(before) = Chain3
    /\ Allied(before) = [i \in 0..2 |-> IF i = 0 THEN 5 ELSE 0]
    /\ beacons = << [location |-> 2, strength |-> 10] >>

\* C3: in scenario A assign_moves records the one assignment (source 0,
\* destination 2, amount 5) and nothing else, step does not panic, and once
\* step has returned the cells hold 0, 5 and 0 allied units.
C3_ScenarioA ==
    ScenarioA =>
        /\ pc # "panic"
        /\ \A i \in DOMAIN assignments :
              assignments[i] = [source |-> 0, destination |-> 2, amount |-> 5]
        /\ pc \in {"step_loop", "path_bfs", "path_walk", "returned"} =>
              Len(assignments) = 1
        /\ pc = "returned" =>
              Allied(cells) = [i \in 0..2 |-> IF i = 1 THEN 5 ELSE 0]

----------------------------------------------------------------------------
(* C4 *)

\* scenario B: on a connected graph one cell holds all 4 allied units, and step
\* is handed two beacons of strength 1 and 3
ScenarioB ==
    /\ op = "step"
    /\ Connected(before)
    /\ TotalAnts(before) = 4
    /\ \E i \in DOMAIN before : before[i].allied_ants = 4
    /\ Len(beacons) = 2
    /\ beacons[1].strength = 1
    /\ beacons[2].strength = 3

\* the units the recorded assignments give to sink `sink_index`
Given(as, sink_index) ==
    SumSeq([i \in 1..Len(as) |->
               IF as[i].destination = sink_index THEN as[i].amount ELSE 0])

\* C4: in scenario B the sinks start with demands 1 and 3 and no wiggle room,
\* and the assignments assign_moves returns give 1 unit to the first beacon
\* and 3 to the second, each drawn from the cell that holds the 4 units.
C4_ScenarioB ==
    ScenarioB =>
        /\ pc # "panic"
        /\ (pc = "assign_loop" /\ ~stragglers) =>
              /\ sinks[1].ants = 1 /\ sinks[1].wiggle_room = 0
              /\ sinks[2].ants = 3 /\ sinks[2].wiggle_room = 0
        /\ pc \in {"step_loop", "path_bfs", "path_walk", "returned"} =>
              /\ Given(assignments, 0) = 1
              /\ Given(assignments, 1) = 3
              /\ \A i \in DOMAIN assignments :
                    before[sources[assignments[i].source + 1].location].allied_ants = 4

----------------------------------------------------------------------------
(* C5 *)

\* C5: every assignment assign_moves records, in the first pass and in every
\* straggler pass, has an amount of at least 1.
C5_AmountsPositive ==
    \A i \in DOMAIN assignments : assignments[i].amount >= 1

----------------------------------------------------------------------------
(* C6 *)

\* C6: when assign_moves records an assignment, the source it draws from
\* still holds units: its remaining count, read before the decrement, is
\* above zero.
C6_SourceHoldsUnits ==
    \A i \in DOMAIN drawn : drawn[i] > 0

----------------------------------------------------------------------------
(* C7 *)

\* `amount` units have left cell `src` for one neighbor of it that is one edge
\* nearer to `dest`, and no other count has changed
MovedOneEdge(c, d, src, dest, amount) ==
    \E n \in Neighbors(c, src) :
        /\ n # src
        /\ ~Distance(c, n, dest).panic
        /\ Distance(c, n, dest).value + 1 = Distance(c, src, dest).value
        /\ d = MoveAnts(c, src, n, amount)

----------------------------------------------------------------------------
(* C8 *)

NonNegative(c) ==
    \A i \in DOMAIN c : c[i].allied_ants >= 0 /\ c[i].ennemy_ants >= 0

\* step is about to apply an assignment that asks for more units than its
\* source cell holds
Overdraw ==
    /\ op = "step"
    /\ PathEnds
    /\ Len(path) > 1
    /\ cells[move.source].allied_ants < move.amount

\* C8: over any sequence of turns no allied or enemy unit count is ever
\* negative, and an assignment that would overdraw its source ends step in a
\* panic with every count as it was.
C8_CountsNeverNegative ==
    /\ NonNegative(cells)
    /\ [][ /\ NonNegative(cells')
           /\ Overdraw => (pc' = "panic" /\ cells' = cells) ]_vars

\* step has met an overdrawing assignment and panicked
C8_Witness ==
    /\ op = "step"
    /\ pc = "panic"
    /\ panic = "assertion failed: source.allied_ants >= amount"
    /\ cells[move.source].allied_ants < move.amount

----------------------------------------------------------------------------
(* C9 *)

\* C9: when the allied units total zero, step ends in the panic of
\* assign_moves' assertion with no sink, pair or assignment computed, no game
\* returned and every count as it was.
C9_ZeroTotalIsFatal ==
    (op = "step" /\ TotalAnts(before) = 0) =>
        /\ pc = "panic"
        /\ panic = "assertion failed: total_ants != 0"
        /\ sinks = << >>
        /\ pairs = << >>
        /\ assignments = << >>
        /\ ret = << >>
        /\ cells = before

\* step was called with beacons on a map without allied units and panicked
C9_Witness ==
    /\ op = "step"
    /\ pc = "panic"
    /\ panic = "assertion failed: total_ants != 0"
    /\ beacons # << >>
    /\ TotalAnts(before) = 0

----------------------------------------------------------------------------
(* C10 *)

\* C10: for a line (source, destination, strength) with the destination
\* reachable, beacons_of_line does not panic, collects no more than
\* distance(source, destination) + 1 cells, and returns exactly that many
\* beacons: the first at source, the last at destination, each next one on a
\* neighbor of the one before, all with the line's strength.
C10_BeaconsFollowPath ==
    (op = "beacons_of_line" /\ Reachable(cells, source, destination)) =>
        /\ pc # "panic"
        /\ pc = "path_walk" =>
              Len(path) <= Distance(cells, source, destination).value + 1
        /\ pc = "returned" =>
              /\ Len(ret) = Distance(cells, source, destination).value + 1
              /\ ret[1].location = source
              /\ ret[Len(ret)].location = destination
              /\ \A i \in 1..(Len(ret) - 1) :
                    ret[i + 1].location \in Neighbors(cells, ret[i].location)
              /\ \A i \in 1..Len(ret) : ret[i].strength = strength

----------------------------------------------------------------------------
(* C11 *)

\* a walk of the pair list is about to run
WalkStarts == op = "step" /\ pc = "assign_loop" /\ pairs # << >>

\* C11: the greedy loop terminates: every walk of the pair list leaves a
\* strictly shorter pair list, from which the pairs of every source without
\* remaining units are gone.
C11_PairsShrink ==
    [][ WalkStarts =>
           /\ Len(pairs') < Len(pairs)
           /\ \A k \in DOMAIN pairs' : sources'[pairs'[k][2] + 1].ants > 0 ]_vars

----------------------------------------------------------------------------
(* C12 *)

SourceLocations == { sources[i].location : i \in DOMAIN sources }

\* C12: on a map with allied units, the sources assign_moves builds are exactly
\* the cells whose allied count is not zero, one source per cell, and until the
\* first walk each holds its cell's count as available units.
C12_SourcesAreOccupiedCells ==
    (op = "step" /\ TotalAnts(before) # 0) =>
        /\ SourceLocations = { i \in DOMAIN before : before[i].allied_ants # 0 }
        /\ Cardinality(SourceLocations) = Len(sources)
        /\ ~stragglers =>
              \A i \in DOMAIN sources :
                  sources[i].ants = before[sources[i].location].allied_ants

----------------------------------------------------------------------------
(* C13 *)

\* C13: every assignment names in `source` the cell of the source it was drawn
\* from and in `destination` the cell of the beacon it targets; the cell whose
\* count decides whether a pair is dropped is the cell of the pair's source; and
\* the path step asks for leads from that source cell to that beacon cell.
C13_AssignmentsNameCells ==
    op = "step" =>
        /\ \A i \in DOMAIN assignments :
              /\ assignments[i].source = origin[i].source
              /\ assignments[i].destination = origin[i].sink
        /\ \A k \in DOMAIN pairs : pairs[k][2] = sources[pairs[k][2] + 1].location
        /\ pc \in {"path_bfs", "path_walk"} =>
              \E i \in DOMAIN assignments :
                  source = origin[i].source /\ destination = origin[i].sink

----------------------------------------------------------------------------
(* C14 *)

\* what is left for path's BFS loop to do: the queued states, and two steps for
\* every cell that has no predecessor yet
BfsWork(prev, queue) ==
    Len(queue) + 2 * (NumCells(cells) - Cardinality(DOMAIN prev \cap DOMAIN cells))

\* a direct call of path or distance whose destination cannot be reached
UnreachableCall ==
    /\ op \in {"path", "distance"}
    /\ ~Reachable(cells, source, destination)

\* C14: when the destination is not reachable, path and distance return
\* nothing: path's BFS loop has less left to do after every iteration and, its
\* queue empty, ends in the panic of unreachable!(), without ever walking
\* predecessors; distance ends in the same panic.
C14_UnreachableIsFatal ==
    [][ /\ UnreachableCall' =>
              /\ pc' \in {"path_bfs", "panic"}
              /\ ret' = << >>
              /\ path' = << >>
              /\ pc' = "panic" => (panic' = "unreachable" /\ q' = << >>)
              /\ op' = "distance" => pc' = "panic"
        /\ (UnreachableCall /\ pc = "path_bfs") =>
              /\ BfsWork(previous', q') >= 0
              /\ pc' = "path_bfs" => BfsWork(previous', q') < BfsWork(previous, q) ]_vars

\* a direct path call has emptied its queue without meeting the destination
C14_Witness ==
    /\ op = "path"
    /\ ~Reachable(cells, source, destination)
    /\ pc = "panic"
    /\ panic = "unreachable"
    /\ q = << >>
    /\ DOMAIN previous # {}

----------------------------------------------------------------------------
(* C15 *)

====
